---------------------------- MODULE Spec2Model ----------------------------
(***************************************************************************)
(* A model of extract_data.py: the extraction loop with its retrying       *)
(* query, the trade-condition filter (clean_time_trades), the outlier      *)
(* detector with its grid search (clean_heuristic_trades), the final       *)
(* filter and the aggregation of simultaneous observations.                *)
(*                                                                         *)
(* Conventions.                                                            *)
(*   - A pandas Series or DataFrame is a sequence; iloc positions of the   *)
(*     code are 0-based, so ILoc(s, i) is s[i + 1].                        *)
(*   - Prices are integers counting half cents, so that the mean of two    *)
(*     cent prices (the median of an even group) is again an integer.  The *)
(*     slack y of the detector, 0.02, 0.04, 0.06 dollars, is 4, 8, 12.     *)
(*   - A mean is kept as the exact fraction [num, den]; a standard         *)
(*     deviation as the exact fraction of its square, [num, den]; NaN is   *)
(*     the fraction of denominator 0.  A comparison with NaN is FALSE, as  *)
(*     in numpy.  An entry of tr_scond_check is "True", "False" or, while  *)
(*     no branch has assigned it, "NaN".                                   *)
(*   - An exception that nothing catches ends the program: pc becomes      *)
(*     "raised" and error names the exception.                             *)
(***************************************************************************)
EXTENDS Integers, Sequences, FiniteSets, TLC

VARIABLES
    pc,                      \* position of the script
    error,                   \* the uncaught exception, "none" while running
    start_date,              \* args.start_date (line 68)
    end_date,                \* args.end_date (line 69)
    printed,                 \* the error that the date check printed, "none" if none
    symbol_list,             \* args.symbol_list (line 105)
    date_list,               \* date_list (lines 139, 291)
    tables,                  \* the dates d for which the database has a table ctm_d
    market,                  \* which content the database holds
    output,                  \* the raw collection (line 241)
    remove_dates,            \* line 243
    warning_queried_trades,  \* line 235
    warning_query_sql,       \* line 236
    warning_ctm_date,        \* line 237
    count_1,                 \* position of the extraction loop in symbol_list (line 245)
    loop_dates,              \* the list object the inner loop iterates (line 254)
    date_pos,                \* position of the inner loop in loop_dates
    attempt,                 \* query_sql: the attempt about to run (line 178)
    query_log,               \* query_sql: how each db.raw_sql call of the current call ended
    query_result,            \* what query_sql returned last (line 263)
    filter_tr_corr,          \* line 448
    filter_tr_scond,         \* line 448
    char_unseen_row,         \* line 344
    pos,                     \* clean_heuristic_trades: position in symbol_list_ (line 386)
    count,                   \* line 388
    day_pos,                 \* position of the loop of line 396 in date_list_
    outlier_num_sym,         \* line 393
    not_outlier_sym,         \* line 394
    price_sym_day_mean,      \* line 399, of the day evaluated last
    price_sym_day_std,       \* line 400, of the day evaluated last
    outlier_frame,           \* line 381
    not_outlier_sym_f,       \* lines 432, 439
    not_outlier_series,      \* line 384
    output_filtered,         \* line 458
    output_aggregate         \* line 484

vars == <<pc, error, start_date, end_date, printed, symbol_list, date_list, tables, market, output, remove_dates,
          warning_queried_trades, warning_query_sql, warning_ctm_date, count_1,
          loop_dates, date_pos, attempt, query_log, query_result, filter_tr_corr,
          filter_tr_scond, char_unseen_row, pos, count, day_pos, outlier_num_sym,
          not_outlier_sym, price_sym_day_mean, price_sym_day_std, outlier_frame,
          not_outlier_sym_f, not_outlier_series, output_filtered, output_aggregate>>

-----------------------------------------------------------------------------
(* Bounds of the model.                                                    *)

\* Longest trade-condition string drawn for the condition filter.
MaxCondLen == 3

\* How many ticks a day drawn for the detector has beyond a window of the grid.
MaxExtra == 1

\* How many calls of query_sql may fail (both attempts raising) in one run.
MaxFailedQueries == 1

-----------------------------------------------------------------------------
(* Helpers for sequences.                                                  *)

ILoc(s, i) == s[i + 1]

Range(s) == {s[i] : i \in DOMAIN s}

\* A series given position by position, as the sequence of its values.
Series(f) == SubSeq(f, 1, Len(f))

\* The sum of s[lo..hi], halving the range.
RECURSIVE SumRange(_, _, _)
SumRange(s, lo, hi) ==
    IF lo > hi THEN 0
    ELSE IF lo = hi THEN s[lo]
    ELSE LET mid == (lo + hi) \div 2
         IN  SumRange(s, lo, mid) + SumRange(s, mid + 1, hi)

SumSeq(s) == SumRange(s, 1, Len(s))

\* The positions 1..n as a sequence.
Positions(s) == Series([i \in 1..Len(s) |-> i])

RECURSIVE SeqsUpTo(_, _)
SeqsUpTo(S, n) ==
    IF n = 0 THEN {<<>>}
    ELSE LET shorter == SeqsUpTo(S, n - 1)
         IN  shorter \cup {Append(s, x) : s \in shorter, x \in S}

\* The symbols of the model, in the order in which pandas sorts them.
Symbols == <<"AAPL", "GOOG">>

SymRank(s) == CHOOSE i \in DOMAIN Symbols : Symbols[i] = s

\* NaN among the fractions: the fraction of denominator 0.
NaN == [num |-> 0, den |-> 0]

IsNaN(x) == x.den = 0

-----------------------------------------------------------------------------
(* clean_time_trades, lines 336-368.                                       *)

char_allowed == {"@", "A", "B", "C", "D", "E", "F", "H", "I", "K", "M", "N", "O", "Q",
                 "R", "S", "V", "W", "Y", "1", "4", "5", "6", "7", "8", "9"}

char_forbidden == {"G", "L", "P", "T", "U", "X", "Z"}

char_recognized == char_allowed \cup char_forbidden

\* line 348: str.replace(" ", ""); a string is the sequence of its characters.
RemoveBlanks(s) == SelectSeq(s, LAMBDA c : c # " ")

\* line 350, the first test of the chain.
ForbiddenBranch_or(element) ==
    (\E i \in DOMAIN element : element[i] \in char_forbidden)
        \/ (\A i \in DOMAIN element : element[i] \in char_recognized)

ForbiddenBranch(element) ==
    (\E i \in DOMAIN element : element[i] \in char_forbidden)
        /\ (\A i \in DOMAIN element : element[i] \in char_recognized)

\* line 354
AllowedBranch(element) == \A i \in DOMAIN element : element[i] \in char_allowed

\* line 358
UnseenBranch(element) == \E i \in DOMAIN element : element[i] \notin char_recognized

\* lines 348-361 for one row: the entry of tr_scond_check, which line 340 creates
\* unset (NaN) and only a branch of the chain assigns.
ScondCheck(tr_scond) ==
    LET element == RemoveBlanks(tr_scond)
    IN  IF ForbiddenBranch(element) THEN "False"
        ELSE IF AllowedBranch(element) THEN "True"
        ELSE IF UnseenBranch(element) THEN "False"
        ELSE "NaN"

\* line 361: whether the row is appended to char_unseen_row.
ScondUnseen(tr_scond) ==
    LET element == RemoveBlanks(tr_scond)
    IN  ~ForbiddenBranch(element) /\ ~AllowedBranch(element) /\ UnseenBranch(element)

\* char_unseen_row at line 363: the rows (0-based) of the third branch, ascending
UnseenRows(output_) ==
    LET unseen == SelectSeq(Positions(output_),
                            LAMBDA i : ScondUnseen(output_[i].tr_scond))
    IN  Series([j \in DOMAIN unseen |-> unseen[j] - 1])

-----------------------------------------------------------------------------
(* clean_heuristic_trades, lines 373-443: the grid and the per-day         *)
(* statistics.                                                             *)

\* delta = 0.1 (line 375), as the fraction DeltaNum / DeltaDen.
DeltaNum == 1
DeltaDen == 10

\* np.arange(41, 121, 20) (line 376)
KStart == 41
KStop == 121
KStep == 20

\* np.arange(0.02, 0.08, 0.02) (line 377), in half cents
YStart == 4
YStop == 16
YStep == 4

\* np.arange(start, stop, step): ceil((stop - start) / step) values from start.
Arange(start, stop, step) ==
    [i \in 1..((stop - start + step - 1) \div step) |-> start + (i - 1) * step]

k_list == Arange(KStart, KStop, KStep)

y_list == Arange(YStart, YStop, YStep)

\* lines 378-379: meshgrid(k_list, y_list) ravelled row by row, so k runs through
\* k_list within each y of y_list.
ky_array ==
    [i \in 1..(Len(k_list) * Len(y_list)) |->
        <<k_list[((i - 1) % Len(k_list)) + 1], y_list[((i - 1) \div Len(k_list)) + 1]>>]

\* The value at 0-based position j of the window w sorted ascending.
SortedAt(w, j) ==
    CHOOSE v \in Range(w) :
        /\ Cardinality({i \in DOMAIN w : w[i] < v}) <= j
        /\ j < Cardinality({i \in DOMAIN w : w[i] <= v})

\* pandas Series.quantile(qnum / DeltaDen), linear interpolation between the order
\* statistics around position (n - 1) * q; the result is DeltaDen times the quantile.
QuantileScaled(w, qnum) ==
    LET h  == (Len(w) - 1) * qnum
        lo == h \div DeltaDen
        r  == h % DeltaDen
    IN  IF r = 0 THEN DeltaDen * SortedAt(w, lo)
        ELSE (DeltaDen - r) * SortedAt(w, lo) + r * SortedAt(w, lo + 1)

\* line 409: the values strictly between the window's two quantiles.
Trimmed(w) ==
    LET qlo == QuantileScaled(w, DeltaNum)
        qhi == QuantileScaled(w, DeltaDen - DeltaNum)
    IN  SelectSeq(w, LAMBDA x : DeltaDen * x > qlo /\ DeltaDen * x < qhi)

\* Series.mean(): NaN of no value, else the fraction sum / n.
Mean(t) == IF Len(t) = 0 THEN NaN ELSE [num |-> SumSeq(t), den |-> Len(t)]

\* Series.std(), the sample standard deviation: NaN of fewer than two values, else
\* the fraction whose square root it is, (n * sum(x^2) - sum(x)^2) / (n * (n - 1)).
Std(t) ==
    LET n == Len(t)
        s == SumSeq(t)
        q == SumSeq(Series([i \in DOMAIN t |-> t[i] * t[i]]))
    IN  IF n < 2 THEN NaN ELSE [num |-> n * q - s * s, den |-> n * (n - 1)]

RECURSIVE GCD(_, _)
GCD(a, b) == IF b = 0 THEN a ELSE GCD(b, a % b)

Abs(x) == IF x < 0 THEN -x ELSE x

\* Line 418 against line 419 for one tick: the sign of
\* |price - mean| - (3 * std + y), or 2 when the mean or the std is NaN.  With
\* d = den(mean) * (|price - mean| - y), the comparison of d with
\* 3 * den(mean) * std is that of d^2 * den(std^2) with 9 * den(mean)^2 * num(std^2).
CompareCon(price, mean, std, y) ==
    IF IsNaN(mean) \/ IsNaN(std) THEN 2
    ELSE LET d   == Abs(price * mean.den - mean.num) - y * mean.den
             g   == GCD(std.den, mean.den * mean.den)
             lhs == d * d * (std.den \div g)
             rhs == 9 * ((mean.den * mean.den) \div g) * std.num
         IN  IF d < 0 THEN -1
             ELSE IF lhs < rhs THEN -1
             ELSE IF lhs > rhs THEN 1
             ELSE 0

\* line 421: left_con > right_con
OutlierCon(price, mean, std, y) == CompareCon(price, mean, std, y) = 1

\* line 424: left_con < right_con
NotOutlierCon(price, mean, std, y) == CompareCon(price, mean, std, y) = -1

\* line 402
RangeStart(k) == (k - 1) \div 2

\* line 403
RangeEnd(n, k) == n - RangeStart(k)

\* lines 406-408: the window around a center, rolling_window
WindowStart(window_center, k) == window_center - RangeStart(k)

WindowEnd(window_center, k) == window_center + RangeStart(k) + 1

\* iloc[window_start:window_end] of a series: a slice clipped to the series
RollingWindow(prices, window_center, k) ==
    LET a == WindowStart(window_center, k)
        b == WindowEnd(window_center, k)
        lo == IF a < 0 THEN 0 ELSE a
        hi == IF b > Len(prices) THEN Len(prices) ELSE b
    IN  SubSeq(prices, lo + 1, hi)

\* line 405: range(range_start, range_end), the centers of a day of n prices
IsCenter(window_center, n, k) ==
    RangeStart(k) <= window_center /\ window_center < RangeEnd(n, k)

\* lines 405-411: the loop over the centers fills the two series, created all NaN
\* (lines 399-400)
MeanAfterLoop(prices, k) ==
    Series([i \in 1..Len(prices) |->
               IF IsCenter(i - 1, Len(prices), k)
               THEN Mean(Trimmed(RollingWindow(prices, i - 1, k)))
               ELSE NaN])

StdAfterLoop(prices, k) ==
    Series([i \in 1..Len(prices) |->
               IF IsCenter(i - 1, Len(prices), k)
               THEN Std(Trimmed(RollingWindow(prices, i - 1, k)))
               ELSE NaN])

\* lines 413, 415: series.iloc[:range_start] = series.iloc[range_start]
FillHead(series, k) ==
    Series([i \in 1..Len(series) |->
               IF i - 1 < RangeStart(k) THEN ILoc(series, RangeStart(k)) ELSE series[i]])

\* lines 414, 416: series.iloc[range_end:] = series.iloc[range_end - 1]
FillTail_from_head(series, k) ==
    Series([i \in 1..Len(series) |->
               IF i - 1 >= RangeEnd(Len(series), k)
               THEN ILoc(series, RangeStart(k)) ELSE series[i]])

FillTail(series, k) ==
    Series([i \in 1..Len(series) |->
               IF i - 1 >= RangeEnd(Len(series), k)
               THEN ILoc(series, RangeEnd(Len(series), k) - 1) ELSE series[i]])

\* Line 413 reads series.iloc[range_start], an IndexError on a series that has no
\* position range_start; past it range_end - 1 >= 0 is a position as well.
DayRaises(n, k) == RangeStart(k) >= n

\* lines 399-416
DayMean(prices, k) == FillTail(FillHead(MeanAfterLoop(prices, k), k), k)

DayStd(prices, k) == FillTail(FillHead(StdAfterLoop(prices, k), k), k)

-----------------------------------------------------------------------------
(* clean_heuristic_trades, lines 373-443: the loops.                       *)

\* line 398: the rows of one symbol on one date, in the order of output_
DayRows(output_, symbol, date) ==
    SelectSeq(output_, LAMBDA r : r.sym_root = symbol /\ r.date = date)

Prices(rows) == Series([i \in DOMAIN rows |-> rows[i].price])

Labels(series) == Series([i \in DOMAIN series |-> series[i].idx])

\* line 421 over a day: outlier_con_sym_day
OutlierConSymDay(rows, mean, std, y) ==
    Series([i \in DOMAIN rows |-> OutlierCon(rows[i].price, mean[i], std[i], y)])

\* line 424 over a day: not_outlier_con_sym_day, a series with the index of the rows
NotOutlierConSymDay(rows, mean, std, y) ==
    Series([i \in DOMAIN rows |->
               [idx |-> rows[i].idx,
                val |-> NotOutlierCon(rows[i].price, mean[i], std[i], y)]])

\* Series.sum() of a boolean series (line 422)
CountTrue(b) == Cardinality({i \in DOMAIN b : b[i]})

\* lines 381-382; -1 stands for the NaN of a cell not yet assigned
OutlierFrameInit(symbol_list_) ==
    [i \in DOMAIN symbol_list_ |->
        [symbol |-> symbol_list_[i], out_num |-> -1, k |-> -1, y |-> -1]]

\* lines 427 and 434: whether the candidate just scanned is recorded
Recorded_ge(count_, outlier_num_sym_, out_num) ==
    count_ = 1 \/ outlier_num_sym_ >= out_num

Recorded(count_, outlier_num_sym_, out_num) ==
    count_ = 1 \/ outlier_num_sym_ > out_num

-----------------------------------------------------------------------------
(* The final filter, line 458.                                             *)

\* fillna(False).astype(bool) of the right operand of Series.__and__
FillBool(v) == v = "True"

\* filter_tr_corr & filter_tr_scond & filter_outlier at 1-based position i, the
\* three series having the same index.
KeepAt(corr, scond, outlier, i) == corr[i] /\ FillBool(scond[i]) /\ outlier[i].val

\* output[mask]: the rows at the positions where the mask is True, in their order
SelectByMask(rows, mask) ==
    LET kept == SelectSeq(Positions(rows), LAMBDA i : mask[i])
    IN  Series([j \in DOMAIN kept |-> rows[kept[j]]])

-----------------------------------------------------------------------------
(* The aggregation, lines 482-484.                                         *)

Key(r) == <<SymRank(r.sym_root), r.date, r.time_m>>

KeyLess(a, b) ==
    \/ a[1] < b[1]
    \/ a[1] = b[1] /\ a[2] < b[2]
    \/ a[1] = b[1] /\ a[2] = b[2] /\ a[3] < b[3]

\* groupby(['sym_root', 'date', 'time_m']): the distinct keys, sorted ascending.
\* Each distinct key, taken where it appears first, goes to the place that the
\* number of keys below it gives.
GroupKeys(rows) ==
    LET keys   == Series([i \in DOMAIN rows |-> Key(rows[i])])
        first  == SelectSeq(Positions(rows),
                            LAMBDA i : \A j \in 1..(i - 1) : keys[j] # keys[i])
        below  == Series([a \in DOMAIN first |->
                             Cardinality({b \in DOMAIN first :
                                             KeyLess(keys[first[b]], keys[first[a]])})])
    IN  Series([g \in DOMAIN first |->
                   keys[first[CHOOSE a \in DOMAIN first : below[a] = g - 1]]])

Group(rows, key) == SelectSeq(rows, LAMBDA r : Key(r) = key)

\* median(): the middle value of the sorted prices, the mean of the two middle
\* values of an even number of them
Median(values) ==
    LET n == Len(values)
    IN  IF n % 2 = 1 THEN SortedAt(values, n \div 2)
        ELSE (SortedAt(values, n \div 2 - 1) + SortedAt(values, n \div 2)) \div 2

\* line 482: one row per group with the median of its prices
PriceMedian(rows) ==
    LET keys == GroupKeys(rows)
    IN  Series([g \in DOMAIN keys |->
                   LET grp == Group(rows, keys[g])
                   IN  [sym_root |-> grp[1].sym_root, date |-> grp[1].date,
                        time_m |-> grp[1].time_m, price |-> Median(Prices(grp))]])

\* line 483: the sum of the sizes of each group, in the order of the groups
VolumeSum_count(rows) ==
    LET keys == GroupKeys(rows)
    IN  Series([g \in DOMAIN keys |-> Len(Group(rows, keys[g]))])

VolumeSum(rows) ==
    LET keys == GroupKeys(rows)
    IN  Series([g \in DOMAIN keys |->
                   LET grp == Group(rows, keys[g])
                   IN  SumSeq(Series([i \in DOMAIN grp |-> grp[i].size]))])

\* line 484: pd.concat([price_median, volume_sum], axis=1), row g beside row g
Concat_shifted(price_median, volume_sum) ==
    Series([g \in DOMAIN price_median |->
               [sym_root |-> price_median[g].sym_root, date |-> price_median[g].date,
                time_m |-> price_median[g].time_m, price |-> price_median[g].price,
                size |-> volume_sum[(g % Len(volume_sum)) + 1]]])

Concat(price_median, volume_sum) ==
    Series([g \in DOMAIN price_median |->
               [sym_root |-> price_median[g].sym_root, date |-> price_median[g].date,
                time_m |-> price_median[g].time_m, price |-> price_median[g].price,
                size |-> volume_sum[g]]])

Aggregated(rows) == Concat(PriceMedian(rows), VolumeSum(rows))

-----------------------------------------------------------------------------
(* The database and the extraction loop, lines 172-291.                    *)

input_vars == <<start_date, end_date, printed>>

extraction_vars == <<input_vars, symbol_list, date_list, tables, market, output, remove_dates,
                     warning_queried_trades, warning_query_sql, warning_ctm_date,
                     count_1, loop_dates, date_pos, attempt, query_log, query_result>>

time_vars == <<filter_tr_corr, filter_tr_scond, char_unseen_row>>

heuristic_vars == <<pos, count, day_pos, outlier_num_sym, not_outlier_sym,
                    price_sym_day_mean, price_sym_day_std, outlier_frame,
                    not_outlier_sym_f, not_outlier_series>>

\* line 174
max_attempts == 2

\* A quiet price path around 10 cents: 9, 10, 10, 11 cents in turn.
PatternPrice(i) == 20 + 2 * ((((i % 4) + 1) \div 2) - 1)

\* One tick; i is its label in the query's result.  Two consecutive ticks share a
\* timestamp.
Tick(i, symbol, date, price, tr_corr, tr_scond) ==
    [idx |-> i, sym_root |-> symbol, sym_suffix |-> "", date |-> date,
     time_m |-> i \div 2, price |-> price, size |-> 1 + (i % 3),
     tr_corr |-> tr_corr, tr_scond |-> tr_scond]

\* A day of n ticks: 10 cents flat at the positions before flat, the quiet path from
\* there on, the tick at position dev_pos at dev_price instead; every sixteenth tick
\* is a corrected trade, every sixteenth one carries a forbidden condition.
QuietDay(symbol, date, n, flat, dev_pos, dev_price) ==
    [j \in 1..n |->
        Tick(j - 1, symbol, date,
             IF j - 1 = dev_pos THEN dev_price
             ELSE IF j - 1 < flat THEN 20 ELSE PatternPrice(j - 1),
             IF (j - 1) % 16 = 5 THEN "01" ELSE "00",
             IF (j - 1) % 16 = 9 THEN <<"T">> ELSE <<"@", " ">>)]

\* The dates of the model, and the trading days the calendar can return (line 139).
Dates == {1, 2}

\* What table ctm_<date> holds of a symbol within the time window, in each of the
\* database contents the model draws: days of 51 to 54 ticks with one tick away
\* from the path, by 2 cents (the slack of the first candidate) or by 7; in market 2
\* GOOG has a short day and a day without a trade.  The second row of a day is a
\* row of a suffixed ticker.
Table(market_, symbol, date) ==
    LET n   == IF market_ = 2 /\ symbol = "GOOG"
               THEN (IF date = 1 THEN 30 ELSE 0)
               ELSE 50 + SymRank(symbol) + 2 * (date - 1) + 1
        day == QuietDay(symbol, date, n, 0, 10 + 4 * date, IF date = 1 THEN 24 ELSE 34)
    IN  [j \in DOMAIN day |->
            IF j = 2 THEN [day[j] EXCEPT !.sym_suffix = "WS"] ELSE day[j]]

\* line 183: the rows whose sym_suffix is null, with the labels they had
NullSuffix(trades) == SelectSeq(trades, LAMBDA r : r.sym_suffix = "")

\* Line 245, the head of the loop over the symbols; after it the script goes on to
\* line 448 (lines 296-326 only display).
LoopSymbol ==
    /\ pc = "loop_symbol"
    /\ IF count_1 < Len(symbol_list)
       THEN /\ loop_dates' = date_list
            /\ date_pos' = 0
            /\ pc' = "loop_date"
       ELSE /\ pc' = "clean_time"
            /\ UNCHANGED <<loop_dates, date_pos>>
    /\ UNCHANGED <<error, input_vars, symbol_list, date_list, tables, market, output, remove_dates,
                   warning_queried_trades, warning_query_sql, warning_ctm_date, count_1,
                   attempt, query_log, query_result, time_vars, heuristic_vars,
                   output_filtered, output_aggregate>>

\* Lines 254-261 and 284-289, the head of the loop over the dates, and line 291
\* after it.
LoopDate ==
    /\ pc = "loop_date"
    /\ IF date_pos < Len(loop_dates)
       THEN IF loop_dates[date_pos + 1] \in tables
            THEN \* line 263 calls query_sql
                 /\ attempt' = 0
                 /\ query_log' = <<>>
                 /\ pc' = "query_sql"
                 /\ UNCHANGED <<date_list, remove_dates, warning_ctm_date, count_1,
                                date_pos>>
            ELSE /\ remove_dates' = Append(remove_dates, loop_dates[date_pos + 1])
                 /\ warning_ctm_date' = Append(warning_ctm_date, loop_dates[date_pos + 1])
                 /\ date_pos' = date_pos + 1
                 /\ UNCHANGED <<pc, date_list, count_1, attempt, query_log>>
       ELSE /\ date_list' = SelectSeq(date_list, LAMBDA d : d \notin Range(remove_dates))
            /\ count_1' = count_1 + 1
            /\ pc' = "loop_symbol"
            /\ UNCHANGED <<remove_dates, warning_ctm_date, date_pos, attempt, query_log>>
    /\ UNCHANGED <<error, input_vars, symbol_list, tables, market, output, warning_queried_trades,
                   warning_query_sql, loop_dates, query_result, time_vars,
                   heuristic_vars, output_filtered, output_aggregate>>

\* line 178: range(max_attempts), the values attempt takes
Attempts_one_more == 0..max_attempts

Attempts == 0..(max_attempts - 1)

\* Lines 180-183 and 195-197: an attempt that does not raise returns at once.
QuerySucceeds ==
    /\ pc = "query_sql"
    /\ attempt \in Attempts
    /\ query_log' = Append(query_log, "returned")
    /\ query_result' =
           [trades |-> NullSuffix(Table(market, symbol_list[count_1 + 1],
                                        loop_dates[date_pos + 1])),
            success |-> TRUE]
    /\ pc' = "query_returned"
    /\ UNCHANGED <<error, input_vars, symbol_list, date_list, tables, market, output, remove_dates,
                   warning_queried_trades, warning_query_sql, warning_ctm_date, count_1,
                   loop_dates, date_pos, attempt, time_vars, heuristic_vars,
                   output_filtered, output_aggregate>>

\* Lines 185-193: an attempt that raises an Exception; after the last one the loop
\* of line 178 ends and line 199 returns.
QueryRaises ==
    /\ pc = "query_sql"
    /\ attempt \in Attempts
    /\ Len(warning_query_sql) < MaxFailedQueries
    /\ query_log' = Append(query_log, "raised")
    /\ IF attempt + 1 \in Attempts
       THEN /\ attempt' = attempt + 1
            /\ UNCHANGED <<pc, query_result>>
       ELSE /\ query_result' = [trades |-> <<>>, success |-> FALSE]
            /\ pc' = "query_returned"
            /\ UNCHANGED attempt
    /\ UNCHANGED <<error, input_vars, symbol_list, date_list, tables, market, output, remove_dates,
                   warning_queried_trades, warning_query_sql, warning_ctm_date, count_1,
                   loop_dates, date_pos, time_vars, heuristic_vars, output_filtered,
                   output_aggregate>>

\* Lines 265-282, on the return of query_sql (the bookkeeping of n_obs, which no
\* later stage reads, is left out).
QueryReturned ==
    /\ pc = "query_returned"
    /\ LET this == <<symbol_list[count_1 + 1], loop_dates[date_pos + 1]>>
       IN  IF query_result.success
           THEN IF Len(query_result.trades) > 0
                THEN /\ output' = output \o query_result.trades
                     /\ UNCHANGED <<warning_queried_trades, warning_query_sql>>
                ELSE /\ warning_queried_trades' = Append(warning_queried_trades, this)
                     /\ UNCHANGED <<output, warning_query_sql>>
           ELSE /\ warning_query_sql' = Append(warning_query_sql, this)
                /\ UNCHANGED <<output, warning_queried_trades>>
    /\ date_pos' = date_pos + 1
    /\ pc' = "loop_date"
    /\ UNCHANGED <<error, input_vars, symbol_list, date_list, tables, market, remove_dates,
                   warning_ctm_date, count_1, loop_dates, attempt, query_log,
                   query_result, time_vars, heuristic_vars, output_filtered,
                   output_aggregate>>

Extraction ==
    \/ LoopSymbol
    \/ LoopDate
    \/ QuerySucceeds
    \/ QueryRaises
    \/ QueryReturned

-----------------------------------------------------------------------------
(* The cleaning and aggregation stages of the script, lines 448-484.       *)

Raise(exception) ==
    /\ pc' = "raised"
    /\ error' = exception

\* Line 448, clean_time_trades(output) as a whole (lines 336-368).  A DataFrame to
\* which nothing was appended is pd.DataFrame([]) of line 241: it has no column, and
\* output_['tr_corr'] of line 338 is a KeyError.
CleanTimeTrades ==
    /\ pc = "clean_time"
    /\ IF output = <<>>
       THEN /\ Raise("KeyError")
            /\ UNCHANGED <<time_vars, heuristic_vars>>
       ELSE /\ filter_tr_corr' =
                   Series([i \in DOMAIN output |-> output[i].tr_corr = "00"])
            /\ filter_tr_scond' =
                   Series([i \in DOMAIN output |-> ScondCheck(output[i].tr_scond)])
            /\ char_unseen_row' = UnseenRows(output)
            \* line 453 calls clean_heuristic_trades: lines 375-384
            /\ outlier_frame' = OutlierFrameInit(symbol_list)
            /\ not_outlier_series' = <<>>
            /\ pos' = 0
            /\ pc' = "heuristic_symbol"
            /\ UNCHANGED <<error, count, day_pos, outlier_num_sym, not_outlier_sym,
                           price_sym_day_mean, price_sym_day_std, not_outlier_sym_f>>
    /\ UNCHANGED <<extraction_vars, output_filtered, output_aggregate>>

\* Line 386, the head of the loop over the symbols, and the return of line 443.
HeuristicSymbol ==
    /\ pc = "heuristic_symbol"
    /\ IF pos < Len(symbol_list)
       THEN /\ count' = 0
            /\ pc' = "heuristic_candidate"
       ELSE /\ pc' = "filter"
            /\ UNCHANGED count
    /\ UNCHANGED <<error, extraction_vars, time_vars, pos, day_pos, outlier_num_sym,
                   not_outlier_sym, price_sym_day_mean, price_sym_day_std, outlier_frame,
                   not_outlier_sym_f, not_outlier_series, output_filtered, output_aggregate>>

\* Lines 390-394, the head of the loop over the grid, and line 441 after it.
HeuristicCandidate ==
    /\ pc = "heuristic_candidate"
    /\ IF count < Len(ky_array)
       THEN /\ count' = count + 1
            /\ outlier_num_sym' = 0
            /\ not_outlier_sym' = <<>>
            /\ day_pos' = 0
            /\ pc' = "heuristic_day"
            /\ UNCHANGED <<pos, not_outlier_series>>
       ELSE /\ not_outlier_series' = not_outlier_series \o not_outlier_sym_f
            /\ pos' = pos + 1
            /\ pc' = "heuristic_symbol"
            /\ UNCHANGED <<count, outlier_num_sym, not_outlier_sym, day_pos>>
    /\ UNCHANGED <<error, extraction_vars, time_vars, price_sym_day_mean,
                   price_sym_day_std, outlier_frame, not_outlier_sym_f,
                   output_filtered, output_aggregate>>

\* Lines 396-425, one day of one candidate.
HeuristicDay ==
    /\ pc = "heuristic_day"
    /\ day_pos < Len(date_list)
    /\ LET k    == ky_array[count][1]
           y    == ky_array[count][2]
           rows == DayRows(output, symbol_list[pos + 1], date_list[day_pos + 1])
           mean == DayMean(Prices(rows), k)
           std  == DayStd(Prices(rows), k)
       IN  IF DayRaises(Len(rows), k)
           THEN /\ Raise("IndexError")
                /\ UNCHANGED heuristic_vars
           ELSE /\ price_sym_day_mean' = mean
                /\ price_sym_day_std' = std
                /\ outlier_num_sym' =
                       outlier_num_sym + CountTrue(OutlierConSymDay(rows, mean, std, y))
                /\ not_outlier_sym' =
                       not_outlier_sym \o NotOutlierConSymDay(rows, mean, std, y)
                /\ day_pos' = day_pos + 1
                /\ UNCHANGED <<pc, error, pos, count, outlier_frame, not_outlier_sym_f,
                               not_outlier_series>>
    /\ UNCHANGED <<extraction_vars, time_vars, output_filtered, output_aggregate>>

\* Lines 427-439, after the days of one candidate.
HeuristicSelect ==
    /\ pc = "heuristic_day"
    /\ day_pos = Len(date_list)
    /\ IF Recorded(count, outlier_num_sym, outlier_frame[pos + 1].out_num)
       THEN /\ outlier_frame' =
                   [outlier_frame EXCEPT ![pos + 1] =
                       [symbol |-> @.symbol, out_num |-> outlier_num_sym,
                        k |-> ky_array[count][1], y |-> ky_array[count][2]]]
            /\ not_outlier_sym_f' = not_outlier_sym
       ELSE UNCHANGED <<outlier_frame, not_outlier_sym_f>>
    /\ pc' = "heuristic_candidate"
    /\ UNCHANGED <<error, extraction_vars, time_vars, pos, count, day_pos,
                   outlier_num_sym, not_outlier_sym, price_sym_day_mean,
                   price_sym_day_std, not_outlier_series, output_filtered,
                   output_aggregate>>

\* Line 458.  The three series are combined position by position when they carry
\* the same index; filter_outlier with another index than output makes pandas
\* reindex a series of repeated labels, a ValueError.
OutputFiltered ==
    /\ pc = "filter"
    /\ IF Labels(not_outlier_series) = Labels(output)
       THEN /\ output_filtered' =
                   SelectByMask(output,
                                Series([i \in DOMAIN output |->
                                           KeepAt(filter_tr_corr, filter_tr_scond,
                                                  not_outlier_series, i)]))
            /\ pc' = "aggregate"
            /\ UNCHANGED error
       ELSE /\ Raise("ValueError")
            /\ UNCHANGED output_filtered
    /\ UNCHANGED <<extraction_vars, time_vars, heuristic_vars, output_aggregate>>

\* Lines 482-484.
OutputAggregate ==
    /\ pc = "aggregate"
    /\ output_aggregate' = Aggregated(output_filtered)
    /\ pc' = "done"
    /\ UNCHANGED <<error, extraction_vars, time_vars, heuristic_vars, output_filtered>>

Cleaning ==
    \/ CleanTimeTrades
    \/ HeuristicSymbol
    \/ HeuristicCandidate
    \/ HeuristicDay
    \/ HeuristicSelect
    \/ OutputFiltered
    \/ OutputAggregate

-----------------------------------------------------------------------------
(* The check of the input dates and the calendar, lines 116-139.           *)

\* line 60
min_start_date == <<2003, 9, 10>>

\* line 61
max_end_date == <<2019, 5, 31>>

\* a < b of two date strings 'YYYY-MM-DD': the strings are compared character by
\* character, which for this format is year, then month, then day
StrLess(a, b) ==
    \/ a[1] < b[1]
    \/ a[1] = b[1] /\ a[2] < b[2]
    \/ a[1] = b[1] /\ a[2] = b[2] /\ a[3] < b[3]

StrGreater(a, b) == StrLess(b, a)

\* Lines 116-134: the branch of the check that a pair of dates takes, "none" when
\* no condition of the chain holds.
DateError(start, end) ==
    IF StrGreater(start, end) THEN "start_end"
    ELSE IF StrLess(start, min_start_date) /\ StrLess(end, max_end_date) THEN "start"
    ELSE IF StrGreater(start, min_start_date) /\ StrGreater(end, max_end_date) THEN "end"
    ELSE IF StrLess(start, min_start_date) /\ StrGreater(end, max_end_date) THEN "both"
    ELSE "none"

\* Lines 116-134: each branch prints its error and calls exit(); past the chain the
\* script goes on to the calendar of line 136.
DateCheck ==
    /\ pc = "check_dates"
    /\ printed' = DateError(start_date, end_date)
    /\ pc' = IF DateError(start_date, end_date) = "none" THEN "calendar" ELSE "exited"
    /\ UNCHANGED <<error, start_date, end_date, symbol_list, date_list, tables, market,
                   output, remove_dates, warning_queried_trades, warning_query_sql,
                   warning_ctm_date, count_1, loop_dates, date_pos, attempt, query_log,
                   query_result, time_vars, heuristic_vars, output_filtered,
                   output_aggregate>>

-----------------------------------------------------------------------------
(* The trades the model draws.                                             *)

\* The dates of a run that the model starts past the date check: the defaults of
\* lines 68-69.
DefaultDates ==
    /\ start_date = min_start_date
    /\ end_date = max_end_date
    /\ printed = "none"

IdleExtraction ==
    /\ DefaultDates
    /\ tables = {}
    /\ market = 0
    /\ remove_dates = <<>>
    /\ warning_queried_trades = <<>>
    /\ warning_query_sql = <<>>
    /\ warning_ctm_date = <<>>
    /\ count_1 = 0
    /\ loop_dates = <<>>
    /\ date_pos = 0
    /\ attempt = 0
    /\ query_log = <<>>
    /\ query_result = [trades |-> <<>>, success |-> FALSE]

IdleCleaning ==
    /\ filter_tr_corr = <<>>
    /\ filter_tr_scond = <<>>
    /\ char_unseen_row = <<>>
    /\ pos = 0
    /\ count = 0
    /\ day_pos = 0
    /\ outlier_num_sym = 0
    /\ not_outlier_sym = <<>>
    /\ price_sym_day_mean = <<>>
    /\ price_sym_day_std = <<>>
    /\ outlier_frame = <<>>
    /\ not_outlier_sym_f = <<>>
    /\ not_outlier_series = <<>>
    /\ output_filtered = <<>>
    /\ output_aggregate = <<>>

\* The day lengths drawn for the detector: no tick, days shorter than the smallest
\* window, and days of k to k + MaxExtra ticks for each k of the grid.
DayLens ==
    {0, 20, 21, 40} \cup {k_list[i] + e : i \in DOMAIN k_list, e \in 0..MaxExtra}

\* The tick away from the path: by 2 cents (the slack of the first candidates), by 5
\* or by 7 cents, near the head of the day or at its end.
Devs(n) == {<<3, 24>>, <<3, 34>>, <<n - 1, 30>>}

\* The raw collections drawn for the cleaning stages: one symbol with one day of
\* each length and shape, or with a day of 61 ticks followed by a second day.
CleanInputs ==
    UNION {{[dates |-> <<1>>, rows |-> QuietDay("AAPL", 1, n, flat, dev[1], dev[2])] :
               flat \in {0, 31}, dev \in Devs(n)} : n \in DayLens}
    \cup
    {[dates |-> <<1, 2>>,
      rows |-> QuietDay("AAPL", 1, 61, 31, 3, 34) \o QuietDay("AAPL", 2, n, 0, 3, 24)] :
        n \in {0, 20, 21, 40, 51, 61}}

\* The script at line 448, with a raw collection drawn.
InitClean ==
    /\ pc = "clean_time"
    /\ error = "none"
    /\ symbol_list = <<"AAPL">>
    /\ \E input \in CleanInputs :
           /\ date_list = input.dates
           /\ output = input.rows
    /\ IdleExtraction
    /\ IdleCleaning

SpecClean == InitClean /\ [][Cleaning]_vars

\* The symbol lists and the calendars drawn.
SymbolLists == {<<"AAPL">>, <<"AAPL", "GOOG">>, <<"GOOG", "AAPL">>, <<"AAPL", "AAPL">>}

DateLists == {<<>>, <<1>>, <<1, 2>>}

\* The script at line 241, past the input checks and the calendar.
Init ==
    /\ pc = "loop_symbol"
    /\ error = "none"
    /\ DefaultDates
    /\ symbol_list \in SymbolLists
    /\ date_list \in DateLists
    /\ tables \in SUBSET Dates
    /\ market \in {1, 2}
    /\ output = <<>>
    /\ remove_dates = <<>>
    /\ warning_queried_trades = <<>>
    /\ warning_query_sql = <<>>
    /\ warning_ctm_date = <<>>
    /\ count_1 = 0
    /\ loop_dates = <<>>
    /\ date_pos = 0
    /\ attempt = 0
    /\ query_log = <<>>
    /\ query_result = [trades |-> <<>>, success |-> FALSE]
    /\ IdleCleaning

Next == Extraction \/ Cleaning

Spec == Init /\ [][Next]_vars

-----------------------------------------------------------------------------
(* The condition filter on drawn condition strings.                        *)

\* The characters drawn: the blank, two allowed, two forbidden and two unseen ones.
CondAlphabet == {" ", "@", "9", "T", "G", "J", "2"}

\* The script at line 448 with a raw collection of one tick, whose condition string
\* is any string of at most MaxCondLen characters.
InitCond ==
    /\ pc = "clean_time"
    /\ error = "none"
    /\ symbol_list = <<"AAPL">>
    /\ date_list = <<1>>
    /\ \E scond \in SeqsUpTo(CondAlphabet, MaxCondLen), corr \in {"00", "01"} :
           output = <<Tick(0, "AAPL", 1, 20, corr, scond)>>
    /\ IdleExtraction
    /\ IdleCleaning

SpecCond == InitCond /\ [][CleanTimeTrades]_vars

\* The characters of a condition string other than blanks.
CondChars(tr_scond) == Range(tr_scond) \ {" "}

\* C1: clean_time_trades leaves no entry of tr_scond_check unset; the entry of a
\* row is True exactly when every character of its condition string other than
\* blanks is an allowed one (so the empty and the all-blank string give True), and
\* it is False whenever a forbidden or an unrecognized character is present.
C1_ScondCheckTotal ==
    pc = "heuristic_symbol" =>
        \A i \in DOMAIN output :
            LET chars == CondChars(output[i].tr_scond)
            IN  /\ filter_tr_scond[i] \in {"True", "False"}
                /\ filter_tr_scond[i] = "True" <=> chars \subseteq char_allowed
                /\ (chars \cap char_forbidden # {} \/ chars \ char_recognized # {})
                       => filter_tr_scond[i] = "False"

\* C1, its case: a string that mixes an allowed, a forbidden and an unseen
\* character has been classified False.
C1_Witness ==
    /\ pc = "heuristic_symbol"
    /\ \E i \in DOMAIN output :
           LET chars == CondChars(output[i].tr_scond)
           IN  /\ chars \cap char_allowed # {}
               /\ chars \cap char_forbidden # {}
               /\ chars \ char_recognized # {}
               /\ filter_tr_scond[i] = "False"

-----------------------------------------------------------------------------
(* The outlier detector on drawn raw collections.                          *)

\* The outliers that candidate c (a position of ky_array) counts for a symbol over
\* all the dates.
CandidateCount(output_, symbol, dates, c) ==
    SumSeq(Series([d \in DOMAIN dates |->
        LET rows == DayRows(output_, symbol, dates[d])
        IN  CountTrue(OutlierConSymDay(rows, DayMean(Prices(rows), ky_array[c][1]),
                                       DayStd(Prices(rows), ky_array[c][1]),
                                       ky_array[c][2]))]))

\* The keep-mask of candidate c for a symbol: its days one after the other.
RECURSIVE CandidateMask(_, _, _, _, _)
CandidateMask(output_, symbol, dates, c, d) ==
    IF d > Len(dates) THEN <<>>
    ELSE LET rows == DayRows(output_, symbol, dates[d])
         IN  NotOutlierConSymDay(rows, DayMean(Prices(rows), ky_array[c][1]),
                                 DayStd(Prices(rows), ky_array[c][1]), ky_array[c][2])
                 \o CandidateMask(output_, symbol, dates, c, d + 1)

\* The first position of a sequence of counts that holds its maximum.
FirstMax(counts) ==
    CHOOSE c \in DOMAIN counts :
        /\ \A b \in DOMAIN counts : counts[b] <= counts[c]
        /\ \A b \in 1..(c - 1) : counts[b] < counts[c]

GridCounts(output_, symbol, dates) ==
    Series([c \in DOMAIN ky_array |-> CandidateCount(output_, symbol, dates, c)])

\* The grid of a symbol has been scanned to its end.
GridScanned == pc = "heuristic_candidate" /\ count = Len(ky_array)

\* C2: the grid has 12 points, k running through 41, 61, 81, 101 within each y of
\* 0.02, 0.04, 0.06; once it is scanned for a symbol, the recorded (k, y, out_num)
\* and the keep-mask handed on are those of the first candidate in that order whose
\* count of outliers over all the days of the symbol is the largest of the grid.
C2_FirstMaximumWins ==
    /\ Len(ky_array) = 12
    /\ \A c \in DOMAIN ky_array :
           ky_array[c] = <<41 + 20 * ((c - 1) % 4), 4 + 4 * ((c - 1) \div 4)>>
    /\ GridScanned =>
           LET counts == GridCounts(output, symbol_list[pos + 1], date_list)
               best   == FirstMax(counts)
           IN  /\ outlier_frame[pos + 1] =
                      [symbol |-> symbol_list[pos + 1], out_num |-> counts[best],
                       k |-> ky_array[best][1], y |-> ky_array[best][2]]
               /\ not_outlier_sym_f =
                      CandidateMask(output, symbol_list[pos + 1], date_list, best, 1)

\* C2, its case: the grid is scanned, the candidate recorded is not the first of
\* the scan (it overwrote an earlier one that counted fewer outliers), and a later
\* candidate counts as many outliers as it.
C2_Witness ==
    /\ GridScanned
    /\ LET counts == GridCounts(output, symbol_list[pos + 1], date_list)
           best   == FirstMax(counts)
       IN  /\ best > 1
           /\ outlier_frame[pos + 1].k = ky_array[best][1]
           /\ outlier_frame[pos + 1].out_num > 0
           /\ \E later \in (best + 1)..Len(counts) : counts[later] = counts[best]

\* A day of one candidate has just been evaluated (lines 396-425).
DayEvaluated == pc = "heuristic_day" /\ day_pos >= 1

\* The rows of the day evaluated last, and the window width of its candidate.
LastDayRows == DayRows(output, symbol_list[pos + 1], date_list[day_pos])

LastK == ky_array[count][1]

\* C9: on a day of N >= k ticks, with half = (k - 1) / 2, the mean and the standard
\* deviation used at position i are those of the k prices at c - half .. c + half,
\* where c = i between half and N - half - 1, c = half before and c = N - half - 1
\* after; each such window lies within the day.
C9_WindowOfEachPosition ==
    DayEvaluated =>
        LET prices == Prices(LastDayRows)
            n      == Len(prices)
            half   == (LastK - 1) \div 2
            center(i) == IF i < half THEN half
                         ELSE IF i >= n - half THEN n - half - 1
                         ELSE i
            window(c) == SubSeq(prices, c - half + 1, c + half + 1)
            means  == Series([j \in 1..n |->
                          IF half <= j - 1 /\ j - 1 <= n - half - 1
                          THEN Mean(Trimmed(window(j - 1))) ELSE NaN])
            stds   == Series([j \in 1..n |->
                          IF half <= j - 1 /\ j - 1 <= n - half - 1
                          THEN Std(Trimmed(window(j - 1))) ELSE NaN])
        IN  n >= LastK =>
                \A i \in 0..(n - 1) :
                    /\ 0 <= center(i) - half
                    /\ center(i) + half <= n - 1
                    /\ Len(window(center(i))) = LastK
                    /\ ILoc(price_sym_day_mean, i) = ILoc(means, center(i))
                    /\ ILoc(price_sym_day_std, i) = ILoc(stds, center(i))

\* C9, its case: a day of k + 1 ticks has been evaluated with k = 61, so that two
\* centers exist, the head is filled from the first and the last tick from the
\* second, and the statistics are numbers.
C9_Witness ==
    /\ DayEvaluated
    /\ LastK = 61
    /\ Len(LastDayRows) = 62
    /\ ~IsNaN(ILoc(price_sym_day_mean, 0))
    /\ ~IsNaN(ILoc(price_sym_day_std, 61))

\* The day that line 398 selects next for the candidate in hand.
NextDayRows == DayRows(output, symbol_list[pos + 1], date_list[day_pos + 1])

\* C3: a symbol/day of fewer than 41 ticks (none included) is degenerate and not
\* fatal: the detector does not raise on it, it adds no outlier to the count of the
\* symbol, and each of its ticks is marked kept.
C3_ShortDayDegenerate ==
    /\ (pc = "raised" /\ error = "IndexError") => Len(NextDayRows) >= 41
    /\ (DayEvaluated /\ Len(LastDayRows) < 41) =>
           LET n == Len(LastDayRows)
               y == ky_array[count][2]
           IN  /\ CountTrue(OutlierConSymDay(LastDayRows, price_sym_day_mean,
                                             price_sym_day_std, y)) = 0
               /\ \A j \in 1..n :
                      not_outlier_sym[Len(not_outlier_sym) - n + j].val

\* The position in the symbol list whose detector result covers a row.
SymbolPos(symbol) == CHOOSE p \in DOMAIN symbol_list : symbol_list[p] = symbol

\* The rows of a day that sit exactly on the threshold of the candidate recorded
\* for their symbol: |price - mean| = 3 * std + y.
TieRows(symbol, date) ==
    LET rows == DayRows(output, symbol, date)
        k    == outlier_frame[SymbolPos(symbol)].k
        y    == outlier_frame[SymbolPos(symbol)].y
        mean == DayMean(Prices(rows), k)
        std  == DayStd(Prices(rows), k)
    IN  {rows[j] : j \in {i \in DOMAIN rows :
                              CompareCon(rows[i].price, mean[i], std[i], y) = 0}}

\* C4: a tick with |price - mean| exactly 3 * std + y is flagged by neither of the
\* two predicates, counts as kept in the merged mask, and so is in the filtered
\* collection when its correction and its condition are admissible.
C4_TieKept ==
    /\ DayEvaluated =>
           \A j \in DOMAIN LastDayRows :
               CompareCon(LastDayRows[j].price, price_sym_day_mean[j],
                          price_sym_day_std[j], ky_array[count][2]) = 0
                   => /\ ~OutlierCon(LastDayRows[j].price, price_sym_day_mean[j],
                                     price_sym_day_std[j], ky_array[count][2])
                      /\ ~NotOutlierCon(LastDayRows[j].price, price_sym_day_mean[j],
                                        price_sym_day_std[j], ky_array[count][2])
    /\ pc = "aggregate" =>
           \A p \in DOMAIN symbol_list, d \in DOMAIN date_list :
               \A r \in TieRows(symbol_list[p], date_list[d]) :
                   (r.tr_corr = "00" /\ ScondCheck(r.tr_scond) = "True")
                       => r \in Range(output_filtered)

\* C5: with an empty raw collection the condition filter, the detector and the
\* aggregation all complete without raising, and the result of each is empty.
C5_EmptyInputCompletes ==
    output = <<>> =>
        /\ error = "none"
        /\ pc # "raised"
        /\ filter_tr_corr = <<>> /\ filter_tr_scond = <<>>
        /\ not_outlier_series = <<>>
        /\ output_aggregate = <<>>

-----------------------------------------------------------------------------
(* The extraction loop and the final filter.                               *)

\* The rows of a day that the candidate recorded for their symbol keeps:
\* |price - mean| < 3 * std + y.
KeptRows(symbol, date) ==
    LET rows == DayRows(output, symbol, date)
        k    == outlier_frame[SymbolPos(symbol)].k
        y    == outlier_frame[SymbolPos(symbol)].y
        mean == DayMean(Prices(rows), k)
        std  == DayStd(Prices(rows), k)
    IN  {rows[j] : j \in {i \in DOMAIN rows :
                              CompareCon(rows[i].price, mean[i], std[i], y) = -1}}

OutlierKeep ==
    UNION {KeptRows(symbol_list[p], date_list[d]) :
               p \in DOMAIN symbol_list, d \in DOMAIN date_list}

\* C6: the masks of the detector, put together symbol by symbol and date by date,
\* line up one to one with the raw collection that the extraction loop built, so
\* that line 458 yields a filtered collection; it holds, in their order in the raw
\* collection, the records whose own correction, condition and detector entries are
\* all true.
C6_FilteredAligned ==
    /\ pc = "filter" => Labels(not_outlier_series) = Labels(output)
    /\ pc = "raised" => error # "ValueError"
    /\ pc \in {"aggregate", "done"} =>
           LET keep == OutlierKeep
           IN  output_filtered =
                   SelectSeq(output, LAMBDA r : /\ r.tr_corr = "00"
                                                /\ ScondCheck(r.tr_scond) = "True"
                                                /\ r \in keep)

\* C10: a call of query_sql queries the database at most max_attempts = 2 times; an
\* attempt that does not raise is the last one and the call returns (trades, True);
\* the call returns (None, False) exactly when two attempts raised; the exception of
\* an attempt never leaves the call.
C10_QueryAttempts ==
    /\ Len(query_log) <= 2
    /\ \A i \in DOMAIN query_log : query_log[i] = "returned" => i = Len(query_log)
    /\ pc \in {"query_sql", "query_returned"} => error = "none"
    /\ pc = "query_sql" => \A i \in DOMAIN query_log : query_log[i] = "raised"
    /\ pc = "query_returned" =>
           /\ query_result.success <=> query_log[Len(query_log)] = "returned"
           /\ ~query_result.success <=> query_log = <<"raised", "raised">>
           /\ ~query_result.success => query_result.trades = <<>>

\* C10, its case: a call whose first attempt raised and whose second attempt
\* returned the trades.
C10_Witness ==
    /\ pc = "query_returned"
    /\ query_log = <<"raised", "returned">>
    /\ query_result.success
    /\ Len(query_result.trades) > 0

-----------------------------------------------------------------------------
(* The aggregation on drawn filtered collections.                          *)

MaxAggRows == 3

\* The ticks drawn: three of AAPL at one timestamp of date 1 and one at the next
\* timestamp, one of AAPL on date 2, one of GOOG; each at 10, 11 or 13 cents.
AggSlots ==
    {<<0, "AAPL", 1, 0>>, <<1, "AAPL", 1, 0>>, <<2, "AAPL", 1, 0>>,
     <<3, "AAPL", 1, 1>>, <<0, "AAPL", 2, 0>>, <<0, "GOOG", 1, 0>>}

AggTicks ==
    {[Tick(slot[1], slot[2], slot[3], price, "00", <<"@">>) EXCEPT !.time_m = slot[4]] :
        slot \in AggSlots, price \in {20, 22, 26}}

\* The order that the extraction loop and line 458 leave: the symbols as in the
\* symbol list, the rows of a symbol by date and by label, no row twice.
RawOrder(rows) ==
    \A i, j \in DOMAIN rows :
        i < j =>
            \/ SymbolPos(rows[i].sym_root) < SymbolPos(rows[j].sym_root)
            \/ /\ rows[i].sym_root = rows[j].sym_root
               /\ \/ rows[i].date < rows[j].date
                  \/ rows[i].date = rows[j].date /\ rows[i].idx < rows[j].idx

\* The script at line 482, with a filtered collection drawn.
InitAgg ==
    /\ pc = "aggregate"
    /\ error = "none"
    /\ symbol_list \in {<<"AAPL", "GOOG">>, <<"GOOG", "AAPL">>}
    /\ date_list = <<1, 2>>
    /\ output = <<>>
    /\ IdleExtraction
    /\ filter_tr_corr = <<>>
    /\ filter_tr_scond = <<>>
    /\ char_unseen_row = <<>>
    /\ pos = 0
    /\ count = 0
    /\ day_pos = 0
    /\ outlier_num_sym = 0
    /\ not_outlier_sym = <<>>
    /\ price_sym_day_mean = <<>>
    /\ price_sym_day_std = <<>>
    /\ outlier_frame = <<>>
    /\ not_outlier_sym_f = <<>>
    /\ not_outlier_series = <<>>
    /\ output_filtered \in {rows \in SeqsUpTo(AggTicks, MaxAggRows) : RawOrder(rows)}
    /\ output_aggregate = <<>>

\* Lines 482-484 applied to the collection they produced.
Reaggregate ==
    /\ pc = "done"
    /\ output_filtered' = output_aggregate
    /\ pc' = "aggregate"
    /\ UNCHANGED <<error, extraction_vars, time_vars, heuristic_vars, output_aggregate>>

SpecAgg == InitAgg /\ [][OutputAggregate \/ Reaggregate]_vars

\* The key, the price and the size of a record, of either collection.
Observation(r) ==
    [sym_root |-> r.sym_root, date |-> r.date, time_m |-> r.time_m,
     price |-> r.price, size |-> r.size]

\* The k-th smallest of a sequence of values, k from 1.
KthSmallest(values, k) ==
    CHOOSE v \in Range(values) :
        /\ Cardinality({i \in DOMAIN values : values[i] < v}) < k
        /\ k <= Cardinality({i \in DOMAIN values : values[i] <= v})

\* Twice the median of a sequence of values.
TwiceMedian(values) ==
    LET n == Len(values)
    IN  IF n % 2 = 1 THEN 2 * KthSmallest(values, (n + 1) \div 2)
        ELSE KthSmallest(values, n \div 2) + KthSmallest(values, n \div 2 + 1)

SameKey(a, b) == a.sym_root = b.sym_root /\ a.date = b.date /\ a.time_m = b.time_m

TotalSize(rows) == SumSeq(Series([i \in DOMAIN rows |-> rows[i].size]))

\* C7: the aggregate holds one observation for each distinct (symbol, date, time)
\* of the filtered ticks; its price is the median of the prices of the ticks of
\* that key (the mean of the two middle ones when they are even in number) and its
\* size is the sum of their sizes; the sizes of the aggregate add up to the sizes
\* of the filtered ticks.
C7_MedianAndSum ==
    pc = "done" =>
        /\ \A i \in DOMAIN output_filtered : \E g \in DOMAIN output_aggregate :
               SameKey(output_aggregate[g], output_filtered[i])
        /\ \A g, h \in DOMAIN output_aggregate :
               SameKey(output_aggregate[g], output_aggregate[h]) => g = h
        /\ \A g \in DOMAIN output_aggregate :
               LET grp == SelectSeq(output_filtered,
                                    LAMBDA r : SameKey(r, output_aggregate[g]))
               IN  /\ Len(grp) >= 1
                   /\ 2 * output_aggregate[g].price = TwiceMedian(Prices(grp))
                   /\ output_aggregate[g].size = TotalSize(grp)
        /\ TotalSize(output_aggregate) = TotalSize(output_filtered)

\* C7, its case: three ticks, two of them of one key with different prices and
\* sizes, aggregated to two observations.
C7_Witness ==
    /\ pc = "done"
    /\ Len(output_filtered) = 3
    /\ Len(output_aggregate) = 2
    /\ \E i, j \in DOMAIN output_filtered :
           /\ i # j
           /\ SameKey(output_filtered[i], output_filtered[j])
           /\ output_filtered[i].price # output_filtered[j].price
           /\ output_filtered[i].size # output_filtered[j].size

NoDuplicateKey(rows) ==
    \A i, j \in DOMAIN rows : SameKey(rows[i], rows[j]) => i = j

\* C8: aggregating a collection in which no two records share (symbol, date, time)
\* yields the same keys with the same prices and sizes, as many as there were; the
\* aggregate of an aggregate is that aggregate.
C8_Idempotent ==
    pc = "done" =>
        /\ NoDuplicateKey(output_filtered) =>
               /\ Len(output_aggregate) = Len(output_filtered)
               /\ {Observation(output_aggregate[g]) : g \in DOMAIN output_aggregate}
                      = {Observation(output_filtered[i]) : i \in DOMAIN output_filtered}
        /\ (output_filtered # <<>> /\ "idx" \notin DOMAIN output_filtered[1]) =>
               output_aggregate = output_filtered

\* C8, its case: an aggregate of two observations, one of them a median of two
\* ticks, has been aggregated again.
C8_Witness ==
    /\ pc = "done"
    /\ Len(output_filtered) = 2
    /\ "idx" \notin DOMAIN output_filtered[1]
    /\ \E i \in DOMAIN output_filtered : output_filtered[i].price \notin {20, 22, 26}
    /\ Len(output_aggregate) = 2

-----------------------------------------------------------------------------
(* The date check on drawn start and end dates.                            *)

\* The dates drawn: the two limits, the days next to each, and days well before,
\* between and after them.
DrawnDates ==
    {<<2003, 1, 2>>, <<2003, 9, 9>>, <<2003, 9, 10>>, <<2003, 9, 11>>, <<2011, 6, 15>>,
     <<2019, 5, 30>>, <<2019, 5, 31>>, <<2019, 6, 3>>, <<2020, 1, 2>>}

\* Lines 136-139: the trading days that the calendar returns for the two dates.
Calendar ==
    /\ pc = "calendar"
    /\ date_list' \in DateLists
    /\ pc' = "loop_symbol"
    /\ UNCHANGED <<error, input_vars, symbol_list, tables, market, output, remove_dates,
                   warning_queried_trades, warning_query_sql, warning_ctm_date, count_1,
                   loop_dates, date_pos, attempt, query_log, query_result, time_vars,
                   heuristic_vars, output_filtered, output_aggregate>>

\* The script at line 116, with the two dates drawn.
InitDates ==
    /\ pc = "check_dates"
    /\ error = "none"
    /\ start_date \in DrawnDates
    /\ end_date \in DrawnDates
    /\ printed = "none"
    /\ symbol_list = <<"AAPL">>
    /\ date_list = <<>>
    /\ tables \in {{1}, {1, 2}}
    /\ market = 1
    /\ output = <<>>
    /\ remove_dates = <<>>
    /\ warning_queried_trades = <<>>
    /\ warning_query_sql = <<>>
    /\ warning_ctm_date = <<>>
    /\ count_1 = 0
    /\ loop_dates = <<>>
    /\ date_pos = 0
    /\ attempt = 0
    /\ query_log = <<>>
    /\ query_result = [trades |-> <<>>, success |-> FALSE]
    /\ IdleCleaning

SpecDates == InitDates /\ [][DateCheck \/ Calendar \/ Extraction]_vars

\* a <= b of two dates, by the calendar
DateLeq(a, b) ==
    \/ a[1] < b[1]
    \/ a[1] = b[1] /\ a[2] < b[2]
    \/ a[1] = b[1] /\ a[2] = b[2] /\ a[3] <= b[3]

DatesInRange ==
    /\ DateLeq(min_start_date, start_date)
    /\ DateLeq(start_date, end_date)
    /\ DateLeq(end_date, max_end_date)

\* C11: a run that is past the date check, at the calendar or beyond, has
\* min_start_date <= start_date <= end_date <= max_end_date; with any other pair of
\* dates the check prints an error and the program exits with no query made.
C11_DatesWithinRange ==
    /\ pc \notin {"check_dates", "exited"} => DatesInRange
    /\ (pc # "check_dates" /\ ~DatesInRange) =>
           /\ pc = "exited"
           /\ printed # "none"
           /\ query_log = <<>>
           /\ output = <<>>

=============================================================================
